---------------------------- MODULE Spec2Model ----------------------------
(***************************************************************************)
(* A model of the path tracer in src/src/main.rs.                          *)
(*                                                                         *)
(* Numbers.  An f32 is held as an integer number of grid steps, Scale      *)
(* steps to 1.0.  Sums, differences and products of grid values are exact  *)
(* integers; a product of two grid values is a value at Scale^2 steps to   *)
(* 1.0 and is rounded (toward zero, as a sign-symmetric rounding) when it  *)
(* is stored back into a Vec3 or divided.  Quotients and square roots      *)
(* round to the grid.  A Vec3 is a triple <<x, y, z>> of grid values.      *)
(* An Option<T> is a sequence of length at most one: <<>> is None and      *)
(* <<v>> is Some(v).                                                       *)
(***************************************************************************)
EXTENDS Integers, Sequences, FiniteSets, TLC

VARIABLES
    \* ---- impl Object for [T]::hit, one fold step at a time
    scene,      \* the slice being folded over: a sequence of Sphere
    hray,       \* the ray of the hit test
    trange,     \* the Range<f32> of the hit test: [start, end]
    idx,        \* number of elements the fold has consumed
    best,       \* the fold's accumulator: Option<HitRecord>
    probe,      \* the last call obj.hit(ray, range): [obj, start, end, prior, rec]
    \* ---- Material::scatter
    mat,        \* the material whose scatter is called
    sray,       \* the incoming ray
    shit,       \* the hit record handed to scatter
    draw,       \* the values the random source returned during the call
    sres,       \* the call's result: Option<(Ray, Vec3)>
    \* ---- color, and the per-pixel closure of main that calls it
    world,      \* the scene handed to color
    ray,        \* color's `ray`
    strength,   \* color's `strength`
    bounces,    \* color's `bounces`
    pc,         \* "loop" inside the while loop, "done" once color has returned
    outcome,    \* how the path ended: "escape", "absorbed", "budget" ("none" while running)
    result,     \* the value color returned
    hitTests,   \* calls of world.hit made by this call of color
    scatters,   \* calls of scatter made by this call of color
    atts,       \* the attenuations this call's successful scatters returned
    unitAtts,   \* whether every attenuation returned so far was within [0,1]
    sample,     \* index of the sample the closure is computing
    sum,        \* the running Sum of the closure's samples
    pixel,      \* Option<Vec3>: the closure's value, col / NS
    \* ---- Image::compute and print_ppm
    nx, ny,     \* the image's width and height
    pending,    \* indices of the reversed range no worker has taken yet
    slots,      \* the collect target: index -> the pixels of that row so far
    calls,      \* (x, y) -> the values the pixel function returned there, in call order
    reordered,  \* whether a row was completed before a row of lower index
    image,      \* Option<Vec<Vec<Vec3>>>: the assembled Image
    ipc,        \* "compute", "header", "rows", "done", "panicked"
    header,     \* Option<<<width, height>>>: the printed header
    printed     \* the rows of integer triples printed so far

hitVars == <<scene, hray, trange, idx, best, probe>>
matVars == <<mat, sray, shit, draw, sres>>
colVars == <<world, ray, strength, bounces, pc, outcome, result, hitTests,
             scatters, atts, unitAtts, sample, sum, pixel>>
imgVars == <<nx, ny, pending, slots, calls, reordered, image, ipc, header, printed>>
vars == <<hitVars, matVars, colVars, imgVars>>

-----------------------------------------------------------------------------
(* f32 on a grid *)

Scale == 10

One == Scale

\* rounding toward zero of n / d, d > 0
TDiv(n, d) == IF n >= 0 THEN n \div d ELSE -((-n) \div d)

\* a product of two grid values, stored as a grid value
FMul(a, b) == TDiv(a * b, Scale)

\* a quotient of two grid values (b # 0; a zero divisor is NaN/inf in the
\* program and is outside the model)
FDiv(a, b) == IF b > 0 THEN TDiv(a * Scale, b) ELSE -TDiv(a * Scale, -b)

RECURSIVE SqrtSearch(_, _, _)
SqrtSearch(n, lo, hi) ==
    IF lo >= hi THEN lo
    ELSE LET mid == (lo + hi + 1) \div 2
         IN  IF mid * mid <= n THEN SqrtSearch(n, mid, hi)
                               ELSE SqrtSearch(n, lo, mid - 1)

\* the integer square root of n >= 0, at most 46340 so that mid * mid fits
ISqrt(n) == SqrtSearch(n, 0, IF n < 46340 THEN n ELSE 46340)

\* f32::sqrt of a grid value
FSqrt(a) == ISqrt(a * Scale)

-----------------------------------------------------------------------------
(* Vec3 *)

Zero3 == <<0, 0, 0>>
White == <<One, One, One>>

VAdd(u, v) == <<u[1] + v[1], u[2] + v[2], u[3] + v[3]>>
VSub(u, v) == <<u[1] - v[1], u[2] - v[2], u[3] - v[3]>>
VNeg(u) == <<-u[1], -u[2], -u[3]>>

\* f32 * Vec3 and Vec3 * Vec3, stored
SMul(s, v) == <<FMul(s, v[1]), FMul(s, v[2]), FMul(s, v[3])>>
VMul(u, v) == <<FMul(u[1], v[1]), FMul(u[2], v[2]), FMul(u[3], v[3])>>

\* Vec3 / f32
VDiv(v, s) == <<FDiv(v[1], s), FDiv(v[2], s), FDiv(v[3], s)>>

\* exact: a value at Scale^2 steps to 1.0
Dot(u, v) == u[1] * v[1] + u[2] * v[2] + u[3] * v[3]

\* sqrt(dot(v, v)): the root of a Scale^2 value is a grid value
Length(v) == ISqrt(Dot(v, v))

IntoUnit(v) == VDiv(v, Length(v))

\* v - 2 * dot(v, n) * n
Reflect(v, n) ==
    LET k == 2 * Dot(v, n)
    IN  <<v[1] - TDiv(k * n[1], Scale * Scale),
          v[2] - TDiv(k * n[2], Scale * Scale),
          v[3] - TDiv(k * n[3], Scale * Scale)>>

\* the discriminant of refract, a grid value
RefractDisc(v, n, ni_over_nt) ==
    LET uv == IntoUnit(v)
        dt == TDiv(Dot(uv, n), Scale)
    IN  One - FMul(FMul(ni_over_nt, ni_over_nt), One - FMul(dt, dt))

Refract(v, n, ni_over_nt) ==
    LET uv == IntoUnit(v)
        dt == TDiv(Dot(uv, n), Scale)
        discriminant == RefractDisc(v, n, ni_over_nt)
    IN  IF discriminant > 0
        THEN <<VSub(SMul(ni_over_nt, VSub(uv, SMul(dt, n))),
                    SMul(FSqrt(discriminant), n))>>
        ELSE <<>>

\* `(255.99 * c.sqrt()) as i32` of one channel
Quantize(c) == TDiv(25599 * FSqrt(c), 100 * Scale)

QuantizePixel(col) == <<Quantize(col[1]), Quantize(col[2]), Quantize(col[3])>>

MkRay(o, d) == [origin |-> o, direction |-> d]

PointAtParameter(r, t) == VAdd(r.origin, SMul(t, r.direction))

-----------------------------------------------------------------------------
(* Materials and spheres as data *)

Lambertian(albedo) ==
    [kind |-> "Lambertian", albedo |-> albedo, fuzz |-> 0, ref_idx |-> 0]
Metal(albedo, fuzz) ==
    [kind |-> "Metal", albedo |-> albedo, fuzz |-> fuzz, ref_idx |-> 0]
Dielectric(ref_idx) ==
    [kind |-> "Dielectric", albedo |-> Zero3, fuzz |-> 0, ref_idx |-> ref_idx]

Sphere(center, radius, material) ==
    [center |-> center, radius |-> radius, material |-> material]

HitRecord(t, p, normal, material) ==
    [t |-> t, p |-> p, normal |-> normal, material |-> material]

\* grid values of the literals the scenes use: n tenths
Tenths(n) == TDiv(n * Scale, 10)

Grey == Lambertian(<<Tenths(5), Tenths(5), Tenths(5)>>)
Brown == Lambertian(<<Tenths(4), Tenths(2), Tenths(1)>>)
Mirror == Metal(<<Tenths(7), Tenths(6), Tenths(5)>>, 0)
Brushed == Metal(<<Tenths(7), Tenths(6), Tenths(5)>>, Tenths(5))
Mirrorish == Metal(<<Tenths(7), Tenths(6), Tenths(5)>>, One)
Glass == Dielectric(Tenths(15))

-----------------------------------------------------------------------------
(* impl Object for Sphere *)

\* the two roots in the order the code tries them, or <<>> when the
\* discriminant is not positive.  a, b, c are exact (Scale^2 steps to 1.0),
\* the discriminant is exact (Scale^4), its root is a Scale^2 value and the
\* quotient a grid value.
MutSphereRootsFarFirst(sp, r) ==
    LET oc == VSub(r.origin, sp.center)
        a == Dot(r.direction, r.direction)
        b == Dot(oc, r.direction)
        c == Dot(oc, oc) - sp.radius * sp.radius
        discriminant == b * b - a * c
    IN  IF discriminant > 0
        THEN <<TDiv((-b + ISqrt(discriminant)) * Scale, a),
               TDiv((-b - ISqrt(discriminant)) * Scale, a)>>
        ELSE <<>>

SphereRoots(sp, r) ==
    LET oc == VSub(r.origin, sp.center)
        a == Dot(r.direction, r.direction)
        b == Dot(oc, r.direction)
        c == Dot(oc, oc) - sp.radius * sp.radius
        discriminant == b * b - a * c
    IN  IF discriminant > 0
        THEN <<TDiv((-b - ISqrt(discriminant)) * Scale, a),
               TDiv((-b + ISqrt(discriminant)) * Scale, a)>>
        ELSE <<>>

\* `if t < t_range.end && t >= t_range.start`
InRange(t, start, end) == t < end /\ t >= start

SphereRecord(sp, r, t) ==
    LET p == PointAtParameter(r, t)
    IN  HitRecord(t, p, VDiv(VSub(p, sp.center), sp.radius), sp.material)

SphereHit(sp, r, start, end) ==
    LET roots == SphereRoots(sp, r)
        ok == {i \in DOMAIN roots : InRange(roots[i], start, end)}
    IN  IF ok = {} THEN <<>>
        ELSE LET i == CHOOSE j \in ok : \A k \in ok : j <= k
             IN  <<SphereRecord(sp, r, roots[i])>>

-----------------------------------------------------------------------------
(* impl Object for [T] *)

\* the range the closure hands to obj.hit: `t_range.clone()`
MutProbeRangeNarrowed(hit, start, end) ==
    IF hit # <<>> THEN <<start, hit[1].t>> ELSE <<start, end>>

ProbeRange(hit, start, end) == <<start, end>>

\* `if rec.t < hit_t`
MutCloserOrEqual(t, hit_t) == t <= hit_t

Closer(t, hit_t) == t < hit_t

\* the closure of the fold
FoldStep(hit, obj, r, start, end) ==
    LET rng == ProbeRange(hit, start, end)
        rec == SphereHit(obj, r, rng[1], rng[2])
    IN  IF rec # <<>>
        THEN LET hit_t == IF hit # <<>> THEN hit[1].t ELSE end
             IN  IF Closer(rec[1].t, hit_t) THEN rec ELSE hit
        ELSE hit

RECURSIVE Fold(_, _, _, _, _, _)
Fold(hit, w, k, r, start, end) ==
    IF k > Len(w) THEN hit
    ELSE Fold(FoldStep(hit, w[k], r, start, end), w, k + 1, r, start, end)

\* world.hit(&ray, start..end)
SceneHit(w, r, start, end) == Fold(<<>>, w, 1, r, start, end)

-----------------------------------------------------------------------------
(* Random source *)

\* in_unit_sphere and in_unit_disc loop until `v.dot(&v) < 1.`
InUnitBall(v) == Dot(v, v) < One * One

\* the components a draw of in_unit_sphere takes in the model
DrawSteps == {-Tenths(9), -Tenths(5), 0, Tenths(5), Tenths(9)}

UnitSphereDraws ==
    {v \in DrawSteps \X DrawSteps \X DrawSteps : InUnitBall(v)}

\* rng.gen::<f32>(): a value in [0, 1)
UniformDraws == {0, Tenths(2), Tenths(5), One - 1}

-----------------------------------------------------------------------------
(* Materials: scatter *)

Scattered(r, attenuation) == <<[ray |-> r, attenuation |-> attenuation]>>

LambertianScatter(m, r, hit, rnd) ==
    LET target == VAdd(VAdd(hit.p, hit.normal), rnd)
    IN  Scattered(MkRay(hit.p, VSub(target, hit.p)), m.albedo)

\* `if scattered.direction.dot(&hit.normal) > 0.`
MutLeavesSurfaceOrGrazes(direction, normal) == Dot(direction, normal) >= 0

LeavesSurface(direction, normal) == Dot(direction, normal) > 0

MetalScatter(m, r, hit, rnd) ==
    LET scattered ==
            MkRay(hit.p, VAdd(Reflect(IntoUnit(r.direction), hit.normal),
                              SMul(m.fuzz, rnd)))
    IN  IF LeavesSurface(scattered.direction, hit.normal)
        THEN Scattered(scattered, m.albedo)
        ELSE <<>>

Pow5(x) == FMul(FMul(FMul(FMul(x, x), x), x), x)

Schlick(cos, ref_idx) ==
    LET r0 == FDiv(One - ref_idx, One + ref_idx)
        r0sq == FMul(r0, r0)
    IN  r0sq + FMul(One - r0sq, Pow5(One - cos))

\* (outward_normal, ni_over_nt, cosine)
DielectricSide(m, r, hit) ==
    LET dn == Dot(r.direction, hit.normal)
    IN  IF dn > 0
        THEN <<VNeg(hit.normal), m.ref_idx,
               TDiv(m.ref_idx * dn, Scale * Length(r.direction))>>
        ELSE <<hit.normal, FDiv(One, m.ref_idx),
               TDiv(-dn, Length(r.direction))>>

\* refract(..).filter(|_| gen() >= schlick(..))
DielectricRefracted(m, r, hit, u) ==
    LET side == DielectricSide(m, r, hit)
        refracted == Refract(r.direction, side[1], side[2])
    IN  IF refracted # <<>> /\ u >= Schlick(side[3], m.ref_idx)
        THEN refracted ELSE <<>>

\* `let attenuation = Vec3(1.0, 1.0, 1.0)`
MutDielectricTint == <<One, One, One - 1>>

DielectricAttenuation == <<One, One, One>>

DielectricScatter(m, r, hit, u) ==
    LET refracted == DielectricRefracted(m, r, hit, u)
        direction == IF refracted # <<>> THEN refracted[1]
                     ELSE Reflect(r.direction, hit.normal)
    IN  Scattered(MkRay(hit.p, direction), DielectricAttenuation)

\* hit.material.scatter(&ray, &hit), given what the random source returns
Scatter(m, r, hit, rnd, u) ==
    CASE m.kind = "Lambertian" -> LambertianScatter(m, r, hit, rnd)
      [] m.kind = "Metal" -> MetalScatter(m, r, hit, rnd)
      [] m.kind = "Dielectric" -> DielectricScatter(m, r, hit, u)

-----------------------------------------------------------------------------
(* The values the variables of a component hold while another component's *)
(* specification runs                                                     *)

Pt(x, y, z) == <<Tenths(x), Tenths(y), Tenths(z)>>

NoRay == MkRay(Zero3, Zero3)

HitIdle ==
    /\ scene = <<>>
    /\ hray = NoRay
    /\ trange = <<0, 0>>
    /\ idx = 0
    /\ best = <<>>
    /\ probe = <<>>

MatIdle ==
    /\ mat = Glass
    /\ sray = NoRay
    /\ shit = HitRecord(0, Zero3, Zero3, Glass)
    /\ draw = <<>>
    /\ sres = <<>>

ColIdle ==
    /\ world = <<>>
    /\ ray = NoRay
    /\ strength = White
    /\ bounces = 0
    /\ pc = "idle"
    /\ outcome = "none"
    /\ result = Zero3
    /\ hitTests = 0
    /\ scatters = 0
    /\ atts = <<>>
    /\ unitAtts = TRUE
    /\ sample = 0
    /\ sum = Zero3
    /\ pixel = <<>>

ImgIdle ==
    /\ nx = 0
    /\ ny = 0
    /\ pending = {}
    /\ slots = <<>>
    /\ calls = <<>>
    /\ reordered = FALSE
    /\ image = <<>>
    /\ ipc = "idle"
    /\ header = <<>>
    /\ printed = <<>>

-----------------------------------------------------------------------------
(* The scene-level hit test as a machine: SpecHit *)

\* 0.001, the smallest positive grid value
TMin == 1

\* std::f32::MAX: above every root the model's coordinates can produce
FMax == 1000 * One

MaxScene == 3

HitSpheres ==
    { Sphere(Pt(0, 0, -30), Tenths(10), Grey),
      Sphere(Pt(0, 0, -40), Tenths(20), Mirror),
      Sphere(Pt(0, 0, -60), Tenths(10), Glass),
      Sphere(Pt(20, 0, -30), Tenths(10), Brown) }

HitRays ==
    { MkRay(Pt(0, 0, 0), Pt(0, 0, -10)),
      MkRay(Pt(0, 0, -30), Pt(0, 0, -10)),
      MkRay(Pt(0, 0, 0), Pt(0, 0, -20)),
      MkRay(Pt(0, 0, 0), Pt(10, 0, -20)),
      MkRay(Pt(0, 0, 0), Pt(0, 0, 10)),
      MkRay(Pt(10, 0, 0), Pt(0, 0, -10)) }

HitRanges ==
    { <<TMin, FMax>>,
      <<Tenths(20), Tenths(60)>>,
      <<Tenths(25), Tenths(50)>>,
      <<0, Tenths(20)>> }

RECURSIVE SeqsUpTo(_, _)
SeqsUpTo(S, n) ==
    IF n = 0 THEN {<<>>}
    ELSE LET shorter == SeqsUpTo(S, n - 1)
         IN  shorter \cup {Append(q, e) : q \in shorter, e \in S}

InitHit ==
    /\ scene \in SeqsUpTo(HitSpheres, MaxScene)
    /\ hray \in HitRays
    /\ trange \in HitRanges
    /\ idx = 0
    /\ best = <<>>
    /\ probe = <<>>
    /\ MatIdle /\ ColIdle /\ ImgIdle

\* one call of the fold's closure on the next element of the slice
HitStep ==
    /\ idx < Len(scene)
    /\ LET obj == scene[idx + 1]
           rng == ProbeRange(best, trange[1], trange[2])
       IN  /\ probe' = <<[obj |-> obj, start |-> rng[1], end |-> rng[2],
                          prior |-> best,
                          rec |-> SphereHit(obj, hray, rng[1], rng[2])]>>
           /\ best' = FoldStep(best, obj, hray, trange[1], trange[2])
    /\ idx' = idx + 1
    /\ UNCHANGED <<scene, hray, trange, matVars, colVars, imgVars>>

NextHit == HitStep

SpecHit == InitHit /\ [][NextHit]_vars

-----------------------------------------------------------------------------
(* color, called by the per-pixel closure of main: Spec *)

\* `if bounces < 50`
MaxBounces == 50

\* samples per pixel (NS of main, scaled down)
NumSamples == 2

MutWithinBudgetInclusive(b) == b <= MaxBounces

WithinBudget(b) == b < MaxBounces

\* `let t = 0.5 * (unit_direction[Y] + 1.0)`
MutSkyMixUnhalved(direction) == IntoUnit(direction)[2] + One

SkyMix(direction) == FMul(Tenths(5), IntoUnit(direction)[2] + One)

\* (1. - t) * Vec3(1., 1., 1.) + t * Vec3(0.5, 0.7, 1.0)
SkyGradient(direction) ==
    LET t == SkyMix(direction)
    IN  VAdd(SMul(One - t, White), SMul(t, <<Tenths(5), Tenths(7), One>>))

\* `return Vec3::default()`
MutBlackLeaksStrength(s) == s

Black(s) == Zero3

\* the component-wise product written out in the loop
Attenuate(s, attenuation) ==
    <<FMul(s[1], attenuation[1]), FMul(s[2], attenuation[2]),
      FMul(s[3], attenuation[3])>>

InUnit(col) == \A c \in 1..3 : 0 <= col[c] /\ col[c] <= One
ChannelsInByte(px) == \A c \in 1..3 : 0 <= px[c] /\ px[c] <= 255

\* the draws of in_unit_sphere and of gen() a path takes in the model
PathDraws ==
    {<<0, -Tenths(5), 0>>, Zero3, <<0, Tenths(5), 0>>, <<Tenths(5), 0, 0>>}
PathUniforms == {0, One - 1}

Glow == Lambertian(<<Tenths(11), One, One>>)

Worlds ==
    { \* a diffuse ground under a mirror ball
      <<Sphere(Pt(0, -50, 0), Tenths(50), Grey),
        Sphere(Pt(0, 30, 0), Tenths(10), Mirror)>>,
      \* a diffuse ground under a glass ball
      <<Sphere(Pt(0, -50, 0), Tenths(50), Grey),
        Sphere(Pt(0, 30, 0), Tenths(10), Glass)>>,
      \* a rough metal ball sunk into a diffuse ground
      <<Sphere(Pt(0, 5, 0), Tenths(10), Mirrorish),
        Sphere(Pt(0, -50, 0), Tenths(50), Brown)>>,
      \* a ball brighter than white
      <<Sphere(Pt(0, -50, 0), Tenths(50), Glow),
        Sphere(Pt(0, 30, 0), Tenths(10), Grey)>>,
      \* nothing at all
      <<>> }

\* rays camera.get_ray hands to color
CameraRays ==
    { MkRay(Pt(0, 10, 0), Pt(0, -10, 0)),
      MkRay(Pt(0, 10, 0), Pt(0, 10, 0)),
      MkRay(Pt(0, 10, 50), Pt(0, 10, -50)),
      MkRay(Pt(20, 60, 0), Pt(-5, -10, 0)),
      MkRay(Pt(0, 30, 0), Pt(0, -10, 0)) }

\* the state `color` starts in
EnterColor ==
    /\ ray' \in CameraRays
    /\ strength' = White
    /\ bounces' = 0
    /\ pc' = "loop"
    /\ outcome' = "none"
    /\ hitTests' = 0
    /\ scatters' = 0
    /\ atts' = <<>>

Init ==
    /\ world \in Worlds
    /\ ray \in CameraRays
    /\ strength = White
    /\ bounces = 0
    /\ pc = "loop"
    /\ outcome = "none"
    /\ result = Zero3
    /\ hitTests = 0
    /\ scatters = 0
    /\ atts = <<>>
    /\ unitAtts = TRUE
    /\ sample = 0
    /\ sum = Zero3
    /\ pixel = <<>>
    /\ HitIdle /\ MatIdle /\ ImgIdle

WorldHit == SceneHit(world, ray, TMin, FMax)

\* the while condition fails: the ray left the scene
Escape ==
    /\ pc = "loop"
    /\ WorldHit = <<>>
    /\ hitTests' = hitTests + 1
    /\ result' = VMul(strength, SkyGradient(ray.direction))
    /\ outcome' = "escape"
    /\ pc' = "done"
    /\ UNCHANGED <<world, ray, strength, bounces, scatters, atts, unitAtts,
                   sample, sum, pixel, hitVars, matVars, imgVars>>

\* a hit with the bounce budget spent
BudgetExceeded ==
    /\ pc = "loop"
    /\ WorldHit # <<>>
    /\ ~WithinBudget(bounces)
    /\ hitTests' = hitTests + 1
    /\ result' = Black(strength)
    /\ outcome' = "budget"
    /\ pc' = "done"
    /\ UNCHANGED <<world, ray, strength, bounces, scatters, atts, unitAtts,
                   sample, sum, pixel, hitVars, matVars, imgVars>>

\* what scatter can return for the hit, over the draws of the random source
ScatterResults(hit) ==
    {Scatter(hit.material, ray, hit, rnd, u) :
        rnd \in PathDraws, u \in PathUniforms}

\* a hit whose material returns None
Absorb ==
    /\ pc = "loop"
    /\ WithinBudget(bounces)
    /\ LET hit == WorldHit
       IN  /\ hit # <<>>
           /\ <<>> \in ScatterResults(hit[1])
    /\ hitTests' = hitTests + 1
    /\ scatters' = scatters + 1
    /\ result' = Black(strength)
    /\ outcome' = "absorbed"
    /\ pc' = "done"
    /\ UNCHANGED <<world, ray, strength, bounces, atts, unitAtts,
                   sample, sum, pixel, hitVars, matVars, imgVars>>

\* a hit whose material returns Some((new_ray, attenuation))
Bounce ==
    /\ pc = "loop"
    /\ WithinBudget(bounces)
    /\ LET hit == WorldHit
       IN  /\ hit # <<>>
           /\ \E s \in ScatterResults(hit[1]) :
                /\ s # <<>>
                /\ ray' = s[1].ray
                /\ strength' = Attenuate(strength, s[1].attenuation)
                /\ atts' = Append(atts, s[1].attenuation)
                /\ unitAtts' = (unitAtts /\ InUnit(s[1].attenuation))
    /\ bounces' = bounces + 1
    /\ hitTests' = hitTests + 1
    /\ scatters' = scatters + 1
    /\ UNCHANGED <<world, pc, outcome, result, sample, sum, pixel,
                   hitVars, matVars, imgVars>>

\* the closure's `.map(|_| color(..)).sum()`: the value color returned is
\* added, and color is entered again for the next sample
NextSample ==
    /\ pc = "done"
    /\ sum' = VAdd(sum, result)
    /\ sample' = sample + 1
    /\ IF sample + 1 < NumSamples
       THEN EnterColor
       ELSE /\ pc' = "summed"
            /\ UNCHANGED <<ray, strength, bounces, outcome, hitTests,
                           scatters, atts>>
    /\ UNCHANGED <<world, result, unitAtts, pixel, hitVars, matVars, imgVars>>

\* `col / NS as f32`
FinishPixel ==
    /\ pc = "summed"
    /\ pixel' = <<VDiv(sum, NumSamples * One)>>
    /\ pc' = "pixel"
    /\ UNCHANGED <<world, ray, strength, bounces, outcome, result, hitTests,
                   scatters, atts, unitAtts, sample, sum,
                   hitVars, matVars, imgVars>>

Next ==
    \/ Escape
    \/ BudgetExceeded
    \/ Absorb
    \/ Bounce
    \/ NextSample
    \/ FinishPixel

Spec == Init /\ [][Next]_vars

-----------------------------------------------------------------------------
(* Claims about color, checked under Spec *)

\* one channel of the component-wise product of the first n attenuations,
\* 1.0 if there are none
RECURSIVE ChannelProduct(_, _, _)
ChannelProduct(as, c, n) ==
    IF n = 0 THEN One
    ELSE TDiv(ChannelProduct(as, c, n - 1) * as[n][c], Scale)

ProductOf(as) ==
    <<ChannelProduct(as, 1, Len(as)), ChannelProduct(as, 2, Len(as)),
      ChannelProduct(as, 3, Len(as))>>

\* the sky seen along a direction, written out from the claim
SkySeen(direction) ==
    LET len == ISqrt(Dot(direction, direction))
        t == TDiv(Tenths(5) * (TDiv(direction[2] * Scale, len) + One), Scale)
    IN  <<(One - t) + TDiv(t * Tenths(5), Scale),
          (One - t) + TDiv(t * Tenths(7), Scale),
          (One - t) + t>>

TimesSky(s, sky) ==
    <<TDiv(s[1] * sky[1], Scale), TDiv(s[2] * sky[2], Scale),
      TDiv(s[3] * sky[3], Scale)>>

\* C1: a path ends in exactly one of escape, absorption and budget
\* exceeded.  It ends in escape iff the current ray hits nothing, and the
\* value returned is then the product of the attenuations of the successful
\* scatters so far (white if none) times the sky gradient; it ends in budget
\* exceeded iff the ray hits with bounce_count >= 50, and in absorption iff
\* it hits with bounce_count < 50 and scatter returns no result; in both the
\* value returned is (0,0,0).  So a ray whose first hit absorbs yields black.
C1_TerminalOutcomes ==
    /\ strength = ProductOf(atts)
    /\ pc = "loop" => outcome = "none"
    /\ pc = "done" =>
        /\ outcome \in {"escape", "absorbed", "budget"}
        /\ outcome = "escape" <=> WorldHit = <<>>
        /\ outcome = "budget" <=> WorldHit # <<>> /\ bounces >= MaxBounces
        /\ outcome = "absorbed" <=> WorldHit # <<>> /\ bounces < MaxBounces
        /\ outcome = "absorbed" => <<>> \in ScatterResults(WorldHit[1])
        /\ outcome \in {"absorbed", "budget"} => result = Zero3
        /\ outcome = "escape" =>
               result = TimesSky(ProductOf(atts),
                                 SkySeen(ray.direction))

\* a path absorbed after at least one successful scatter, with strength left
C1_Witness ==
    /\ pc = "done"
    /\ outcome = "absorbed"
    /\ bounces >= 1
    /\ strength # Zero3
    /\ result = Zero3

\* a path that escaped after several scatters with a tinted result
C1_WitnessEscape ==
    /\ pc = "done"
    /\ outcome = "escape"
    /\ bounces >= 2
    /\ result # Zero3
    /\ result # SkySeen(ray.direction)

\* a path absorbed at its first hit
C1_WitnessFirstHit ==
    /\ pc = "done"
    /\ outcome = "absorbed"
    /\ bounces = 0
    /\ result = Zero3

C2_BoundsState ==
    /\ bounces \in 0..MaxBounces
    /\ bounces = Len(atts)
    /\ hitTests <= MaxBounces + 1
    /\ scatters <= MaxBounces
    /\ pc = "loop" =>
        /\ hitTests = bounces
        /\ scatters = bounces
        /\ \/ WorldHit = <<>>
           \/ ~WithinBudget(bounces)
           \/ ScatterResults(WorldHit[1]) # {}
    /\ pc = "done" =>
        /\ hitTests = bounces + 1
        /\ scatters = IF outcome = "absorbed" THEN bounces + 1 ELSE bounces

C2_BoundsStep ==
    pc = "loop" =>
        /\ hitTests' = hitTests + 1
        /\ pc' = "done" \/ bounces' = bounces + 1
        /\ scatters' \in {scatters, scatters + 1}
        /\ scatters' = scatters + 1 => bounces < MaxBounces
        /\ bounces' = IF Len(atts') = Len(atts) + 1 THEN bounces + 1
                                                    ELSE bounces
        /\ Len(atts') \in {Len(atts), Len(atts) + 1}

\* C2: bounce_count stays within 0..50 and is the number of successful
\* scatters: it grows by exactly 1 on a successful scatter and never
\* otherwise.  scatter is called only with bounce_count < 50.  Every turn of
\* the loop makes one hit test and either returns or adds a bounce, and a
\* turn is always possible, so a call of color makes at most 50 successful
\* scatters and at most 51 hit tests before it returns.
C2_BoundedBounces == []C2_BoundsState /\ [][C2_BoundsStep]_vars

\* a path that spent the whole budget: 50 successful scatters, 51 hit tests
C2_Witness ==
    /\ pc = "done"
    /\ outcome = "budget"
    /\ bounces = MaxBounces
    /\ scatters = MaxBounces
    /\ hitTests = MaxBounces + 1

SkyInRange(sky) == \A c \in 1..3 : Tenths(5) <= sky[c] /\ sky[c] <= One

C10_EnergyState ==
    /\ pc = "done" /\ outcome = "escape" =>
        /\ SkyInRange(SkyGradient(ray.direction))
        /\ \A c \in 1..3 : result[c] <= strength[c]
    /\ unitAtts =>
        /\ InUnit(strength)
        /\ pc = "done" => InUnit(result)
        /\ \A c \in 1..3 : 0 <= sum[c] /\ sum[c] <= sample * One
        /\ pixel # <<>> =>
            /\ InUnit(pixel[1])
            /\ ChannelsInByte(QuantizePixel(pixel[1]))

C10_EnergyStep ==
    unitAtts' /\ bounces' = bounces + 1 =>
        \A c \in 1..3 : strength'[c] <= strength[c]

\* C10: while every attenuation scatter has returned has its channels in
\* [0,1], every channel of accumulated_strength is in [0,1] and does not
\* increase from one bounce to the next; the sky gradient's channels are in
\* [0.5,1]; every value color returns has its channels in [0,1], and so has
\* the average of the pixel's samples, whose quantization is within [0,255].
C10_EnergyBound == []C10_EnergyState /\ [][C10_EnergyStep]_vars

\* a finished pixel, not black, whose last sample escaped after two or more
\* scatters of attenuations within [0,1]
C10_Witness ==
    /\ pc = "pixel"
    /\ unitAtts
    /\ outcome = "escape"
    /\ bounces >= 2
    /\ strength # White
    /\ pixel # <<>>
    /\ pixel[1] # Zero3

\* a strength above 1.0, after an attenuation above 1.0
C10_WitnessOverUnit ==
    /\ ~unitAtts
    /\ ~InUnit(strength)

-----------------------------------------------------------------------------
(* Claims about the hit tests, checked under SpecHit *)

\* the quadratic of a sphere and a ray, written out from the claim
HalfB(sp, r) == Dot(VSub(r.origin, sp.center), r.direction)
QuadA(r) == Dot(r.direction, r.direction)
QuadC(sp, r) ==
    Dot(VSub(r.origin, sp.center), VSub(r.origin, sp.center))
        - sp.radius * sp.radius
HalfDisc(sp, r) == HalfB(sp, r) * HalfB(sp, r) - QuadA(r) * QuadC(sp, r)
NearRoot(sp, r) ==
    TDiv((-HalfB(sp, r) - ISqrt(HalfDisc(sp, r))) * Scale, QuadA(r))
FarRoot(sp, r) ==
    TDiv((-HalfB(sp, r) + ISqrt(HalfDisc(sp, r))) * Scale, QuadA(r))
Within(t, lo, hi) == lo <= t /\ t < hi

\* C6: Sphere::hit returns no hit when the half-discriminant b^2 - a*c is
\* <= 0; otherwise it returns the near root if that lies in [t_min, t_max),
\* else the far root if that does, else no hit.  Every returned record has
\* t in [t_min, t_max), carries the point origin + t*direction, the normal
\* (point - center)/radius and the sphere's material.
C6_SphereRootSelection ==
    probe # <<>> =>
        LET sp == probe[1].obj
            rec == probe[1].rec
            lo == probe[1].start
            hi == probe[1].end
        IN  /\ HalfDisc(sp, hray) <= 0 => rec = <<>>
            /\ HalfDisc(sp, hray) > 0 =>
                LET near == NearRoot(sp, hray)
                    far == FarRoot(sp, hray)
                IN  /\ Within(near, lo, hi) => rec # <<>> /\ rec[1].t = near
                    /\ ~Within(near, lo, hi) /\ Within(far, lo, hi) =>
                           rec # <<>> /\ rec[1].t = far
                    /\ ~Within(near, lo, hi) /\ ~Within(far, lo, hi) =>
                           rec = <<>>
            /\ rec # <<>> =>
                /\ Within(rec[1].t, lo, hi)
                /\ rec[1].p = VAdd(hray.origin, SMul(rec[1].t, hray.direction))
                /\ rec[1].normal = VDiv(VSub(rec[1].p, sp.center), sp.radius)
                /\ rec[1].material = sp.material

\* a sphere whose near root lies before the interval and whose far root,
\* inside it, was returned
C6_Witness ==
    /\ probe # <<>>
    /\ probe[1].rec # <<>>
    /\ HalfDisc(probe[1].obj, hray) > 0
    /\ NearRoot(probe[1].obj, hray) < probe[1].start
    /\ probe[1].rec[1].t = FarRoot(probe[1].obj, hray)
    /\ FarRoot(probe[1].obj, hray) # NearRoot(probe[1].obj, hray)

\* the primitives among the first n of the scene that report a hit in the
\* interval, and the earliest of those with the least t
Reporting(n) ==
    {k \in 1..n : SphereHit(scene[k], hray, trange[1], trange[2]) # <<>>}
ReportedT(k) == SphereHit(scene[k], hray, trange[1], trange[2])[1].t
Winner(n) ==
    CHOOSE k \in Reporting(n) :
        \A j \in Reporting(n) :
            \/ ReportedT(k) < ReportedT(j)
            \/ ReportedT(k) = ReportedT(j) /\ k <= j

\* C3: after the fold has consumed any prefix of the scene, it holds no hit
\* iff no primitive of the prefix reports a hit in [t_min, t_max);
\* otherwise it holds the record of the primitive with the least reported t,
\* the earliest in the sequence among equals, with that primitive's material.
C3_ClosestHit ==
    /\ best = <<>> <=> Reporting(idx) = {}
    /\ Reporting(idx) # {} =>
        /\ best = SphereHit(scene[Winner(idx)], hray, trange[1], trange[2])
        /\ best[1].material = scene[Winner(idx)].material
        /\ \A k \in Reporting(idx) : best[1].t <= ReportedT(k)

\* a finished scan in which a later primitive of another material reports
\* exactly the winning t and the earlier one was kept
C3_Witness ==
    /\ idx = Len(scene)
    /\ \E j, k \in Reporting(idx) :
        /\ j < k
        /\ j = Winner(idx)
        /\ ReportedT(j) = ReportedT(k)
        /\ scene[j].material # scene[k].material
        /\ best[1].material = scene[j].material

\* a scan that narrows the interval's upper bound to the best t so far
RECURSIVE NarrowScan(_, _, _)
NarrowScan(hit, k, n) ==
    IF k > n THEN hit
    ELSE LET hi == IF hit # <<>> THEN hit[1].t ELSE trange[2]
             rec == SphereHit(scene[k], hray, trange[1], hi)
         IN  NarrowScan(IF rec # <<>> THEN rec ELSE hit, k + 1, n)

\* C9 as stated: once a hit has been accepted, each later primitive is
\* tested over [t_min, best_t), and the scan's result is that of a scan
\* narrowing the interval this way.
C9_NarrowedProbe ==
    /\ probe # <<>> /\ probe[1].prior # <<>> =>
           /\ probe[1].start = trange[1]
           /\ probe[1].end = probe[1].prior[1].t
    /\ best = NarrowScan(<<>>, 1, idx)

\* C9 amended: every primitive is tested over the original interval
\* [t_min, t_max), a returned record replacing the best hit only when its t
\* is strictly smaller; the scan's result is nevertheless that of a scan
\* that narrows the upper bound to the best t so far.
C9_FilteredProbe ==
    /\ probe # <<>> =>
           /\ probe[1].start = trange[1]
           /\ probe[1].end = trange[2]
    /\ best = NarrowScan(<<>>, 1, idx)

\* a finished scan whose last primitive, tested after a hit was accepted,
\* returned a record at or beyond the best t: one the narrowed interval
\* would not have produced
C9_Witness ==
    /\ idx = Len(scene)
    /\ probe # <<>>
    /\ probe[1].prior # <<>>
    /\ probe[1].rec # <<>>
    /\ probe[1].rec[1].t >= probe[1].prior[1].t
    /\ best = probe[1].prior

-----------------------------------------------------------------------------
(* Material::scatter as a machine: SpecMat *)

MatMaterials == {Grey, Brown, Mirror, Brushed, Mirrorish, Glass}

MatSpheres ==
    { [center |-> Pt(0, 0, -30), radius |-> Tenths(10)],
      [center |-> Pt(0, -20, 0), radius |-> Tenths(20)],
      [center |-> Pt(0, 0, -100), radius |-> Tenths(50)] }

MatRays ==
    { MkRay(Pt(0, 0, 0), Pt(0, 0, -10)),
      MkRay(Pt(0, 0, -30), Pt(0, 0, -10)),
      MkRay(Pt(0, 0, -30), Pt(0, 5, -10)),
      MkRay(Pt(5, 0, 0), Pt(0, 0, -20)),
      MkRay(Pt(8, 0, 0), Pt(0, 0, -10)),
      MkRay(Pt(49, 0, 0), Pt(0, 0, -10)),
      MkRay(Pt(30, 0, 0), Pt(0, 0, -10)),
      MkRay(Pt(40, 0, -100), Pt(0, 0, -10)),
      MkRay(Pt(0, 20, 0), Pt(0, -10, 0)),
      MkRay(Pt(-30, 10, 0), Pt(20, -10, 0)),
      MkRay(Pt(0, -20, 0), Pt(10, 10, 0)) }

\* a material, an incoming ray and the record of that ray's hit on a sphere
\* of that material
InitMat ==
    /\ mat \in MatMaterials
    /\ sray \in MatRays
    /\ \E g \in MatSpheres :
        LET rec == SphereHit(Sphere(g.center, g.radius, mat), sray, TMin, FMax)
        IN  /\ rec # <<>>
            /\ shit = rec[1]
    /\ draw = <<>>
    /\ sres = <<>>
    /\ HitIdle /\ ColIdle /\ ImgIdle

\* one call of scatter
ScatterCall ==
    /\ draw = <<>>
    /\ \E rnd \in UnitSphereDraws, u \in UniformDraws :
        /\ draw' = <<[rnd |-> rnd, u |-> u]>>
        /\ sres' = Scatter(mat, sray, shit, rnd, u)
    /\ UNCHANGED <<mat, sray, shit, hitVars, colVars, imgVars>>

NextMat == ScatterCall

SpecMat == InitMat /\ [][NextMat]_vars

-----------------------------------------------------------------------------
(* Claims about the materials, checked under SpecMat *)

\* the direction a Metal sends the ray in, written out from the claim
MirrorDirection == Reflect(IntoUnit(sray.direction), shit.normal)
FuzzedDirection == VAdd(MirrorDirection, SMul(mat.fuzz, draw[1].rnd))

\* C7: Metal::scatter returns a result iff dot(outgoing.direction,
\* hit.normal) > 0, outgoing.direction being reflect(unit(incoming.direction),
\* hit.normal) + fuzz * random_point_in_unit_sphere; at dot <= 0, exactly 0
\* included, the ray is absorbed.  A result originates at hit.point with
\* attenuation albedo, and with fuzz = 0 its direction is the mirror
\* direction whatever the random draw.
C7_MetalAbsorption ==
    mat.kind = "Metal" /\ draw # <<>> =>
        /\ sres # <<>> <=> Dot(FuzzedDirection, shit.normal) > 0
        /\ sres # <<>> =>
            /\ sres[1].ray.origin = shit.p
            /\ sres[1].ray.direction = FuzzedDirection
            /\ sres[1].attenuation = mat.albedo
            /\ mat.fuzz = 0 => sres[1].ray.direction = MirrorDirection

\* a fuzzed reflection lying exactly in the tangent plane, absorbed
C7_Witness ==
    /\ mat.kind = "Metal"
    /\ draw # <<>>
    /\ Dot(FuzzedDirection, shit.normal) = 0
    /\ sres = <<>>

\* a mirror (fuzz = 0) reflecting under a non-zero random draw
C7_WitnessMirror ==
    /\ mat.kind = "Metal"
    /\ mat.fuzz = 0
    /\ draw # <<>>
    /\ draw[1].rnd # Zero3
    /\ sres # <<>>

\* whether the Dielectric's refraction exists, written out from the claim
RefractionExists ==
    LET dn == Dot(sray.direction, shit.normal)
    IN  IF dn > 0
        THEN RefractDisc(sray.direction, VNeg(shit.normal), mat.ref_idx) > 0
        ELSE RefractDisc(sray.direction, shit.normal, FDiv(One, mat.ref_idx)) > 0
Reflectance ==
    LET dn == Dot(sray.direction, shit.normal)
        len == Length(sray.direction)
    IN  Schlick(IF dn > 0 THEN TDiv(mat.ref_idx * dn, Scale * len)
                          ELSE TDiv(-dn, len), mat.ref_idx)
TakesRefraction == RefractionExists /\ draw[1].u >= Reflectance

\* C8: Lambertian::scatter always returns a result with attenuation equal
\* to the albedo, and Dielectric::scatter always returns a result with
\* attenuation (1,1,1), on the refracted branch (refract succeeds and the
\* draw is >= schlick) and on the reflected branch (refract fails or the
\* draw is < schlick, direction reflect(incoming.direction, normal)) alike;
\* both outgoing rays originate at hit.point.
C8_NeverAbsorb ==
    draw # <<>> =>
        /\ mat.kind = "Lambertian" =>
            /\ sres # <<>>
            /\ sres[1].attenuation = mat.albedo
            /\ sres[1].ray.origin = shit.p
            /\ sres[1].ray.direction = VAdd(shit.normal, draw[1].rnd)
        /\ mat.kind = "Dielectric" =>
            /\ sres # <<>>
            /\ sres[1].attenuation = White
            /\ sres[1].ray.origin = shit.p
            /\ ~TakesRefraction =>
                   sres[1].ray.direction = Reflect(sray.direction, shit.normal)

\* a Dielectric whose refraction exists and whose draw fell below the
\* reflectance: the reflected branch, with white attenuation
C8_Witness ==
    /\ mat.kind = "Dielectric"
    /\ draw # <<>>
    /\ RefractionExists
    /\ draw[1].u < Reflectance
    /\ sres # <<>>
    /\ sres[1].ray.direction = Reflect(sray.direction, shit.normal)

\* a Dielectric on the refracted branch
C8_WitnessRefracted ==
    /\ mat.kind = "Dielectric"
    /\ draw # <<>>
    /\ TakesRefraction
    /\ sres # <<>>
    /\ sres[1].ray.direction # Reflect(sray.direction, shit.normal)

\* a Dielectric whose refraction does not exist (total internal reflection)
C8_WitnessTotalReflection ==
    /\ mat.kind = "Dielectric"
    /\ draw # <<>>
    /\ ~RefractionExists
    /\ sres # <<>>

-----------------------------------------------------------------------------
(* Image::compute and print_ppm as a machine: SpecImg *)

MaxNx == 2
MaxNy == 2

\* values the pixel function returns: two within [0,1] and one that
\* exceeds 1.0 in a channel
PixelColors ==
    { <<0, Tenths(5), One>>, <<One, Tenths(2), 0>>, <<Tenths(15), 0, 0>> }

\* `.rev()`: the i-th item of the reversed range 0..n
MutRevIndexForward(i, n) == i

RevIndex(i, n) == n - 1 - i

InitImg ==
    /\ nx \in 0..MaxNx
    /\ ny \in 0..MaxNy
    /\ pending = 0..(ny - 1)
    /\ slots = [i \in 0..(ny - 1) |-> <<>>]
    /\ calls = [xy \in (0..(nx - 1)) \X (0..(ny - 1)) |-> <<>>]
    /\ reordered = FALSE
    /\ image = <<>>
    /\ ipc = "compute"
    /\ header = <<>>
    /\ printed = <<>>
    /\ HitIdle /\ MatIdle /\ ColIdle

RowComplete(sl, i) == i \notin pending /\ Len(sl[i]) = nx

\* a worker takes item i of the reversed range: the outer map's closure
\* starts on scanline y = RevIndex(i, ny)
StartRow(i) ==
    /\ ipc = "compute"
    /\ i \in pending
    /\ pending' = pending \ {i}
    /\ reordered' =
        (reordered \/ (nx = 0 /\ \E k \in 0..(i - 1) : ~RowComplete(slots, k)))
    /\ UNCHANGED <<nx, ny, slots, calls, image, ipc, header, printed,
                   hitVars, matVars, colVars>>

\* the worker of item i calls f(x, y) for its next x and pushes the value
ComputePixel(i) ==
    /\ ipc = "compute"
    /\ i \in 0..(ny - 1)
    /\ i \notin pending
    /\ Len(slots[i]) < nx
    /\ LET x == Len(slots[i])
           y == RevIndex(i, ny)
       IN  \E col \in PixelColors :
            /\ slots' = [slots EXCEPT ![i] = Append(@, col)]
            /\ calls' = [calls EXCEPT ![<<x, y>>] = Append(@, col)]
            /\ reordered' =
                (reordered \/ (x + 1 = nx /\
                     \E k \in 0..(i - 1) : ~RowComplete(slots, k)))
    /\ UNCHANGED <<nx, ny, pending, image, ipc, header, printed,
                   hitVars, matVars, colVars>>

\* the outer collect returns once every item is in its place
Collect ==
    /\ ipc = "compute"
    /\ \A i \in 0..(ny - 1) : RowComplete(slots, i)
    /\ image' = <<[i \in 1..ny |-> slots[i - 1]]>>
    /\ ipc' = "header"
    /\ UNCHANGED <<nx, ny, pending, slots, calls, reordered, header, printed,
                   hitVars, matVars, colVars>>

\* `println!("P3\n{} {}\n255", image.0[0].len(), image.0.len())`:
\* indexing row 0 of an image without rows panics
PrintHeader ==
    /\ ipc = "header"
    /\ IF Len(image[1]) = 0
       THEN /\ ipc' = "panicked"
            /\ UNCHANGED header
       ELSE /\ header' = <<<<Len(image[1][1]), Len(image[1])>>>>
            /\ ipc' = "rows"
    /\ UNCHANGED <<nx, ny, pending, slots, calls, reordered, image, printed,
                   hitVars, matVars, colVars>>

\* one turn of `for scanline in image.0`, printing the scanline's pixels
PrintRow ==
    /\ ipc = "rows"
    /\ Len(printed) < Len(image[1])
    /\ LET scanline == image[1][Len(printed) + 1]
       IN  printed' = Append(printed,
                [j \in 1..Len(scanline) |-> QuantizePixel(scanline[j])])
    /\ UNCHANGED <<nx, ny, pending, slots, calls, reordered, image, ipc,
                   header, hitVars, matVars, colVars>>

\* print_ppm returns
PrintDone ==
    /\ ipc = "rows"
    /\ Len(printed) = Len(image[1])
    /\ ipc' = "done"
    /\ UNCHANGED <<nx, ny, pending, slots, calls, reordered, image, header,
                   printed, hitVars, matVars, colVars>>

NextImg ==
    \/ \E i \in 0..(MaxNy - 1) : StartRow(i)
    \/ \E i \in 0..(MaxNy - 1) : ComputePixel(i)
    \/ Collect
    \/ PrintHeader
    \/ PrintRow
    \/ PrintDone

SpecImg == InitImg /\ [][NextImg]_vars

-----------------------------------------------------------------------------
(* Claims about the image, checked under SpecImg *)

\* C4: whatever order the scanline workers start and complete in, row i
\* (0-based, top first) of the assembled image holds in column j the value
\* the pixel function returned for x = j, y = ny-1-i, so that the top row is
\* the highest y; print_ppm emits the rows in that order.
C4_RowOrder ==
    /\ image # <<>> =>
        /\ Len(image[1]) = ny
        /\ \A i \in 0..(ny - 1) :
            /\ Len(image[1][i + 1]) = nx
            /\ \A j \in 0..(nx - 1) :
                /\ calls[<<j, ny - 1 - i>>] # <<>>
                /\ image[1][i + 1][j + 1] = calls[<<j, ny - 1 - i>>][1]
    /\ \A i \in 1..Len(printed) :
        /\ Len(printed[i]) = nx
        /\ \A j \in 1..nx :
            printed[i][j] = QuantizePixel(calls[<<j - 1, ny - i>>][1])

\* a printed image of at least two rows whose rows were completed out of
\* index order and whose top and bottom rows differ
C4_Witness ==
    /\ ipc = "done"
    /\ ny >= 2
    /\ nx >= 1
    /\ reordered
    /\ image[1][1] # image[1][ny]
    /\ image[1][1][1] = calls[<<0, ny - 1>>][1]

ChannelsInUnit(col) == \A c \in 1..3 : 0 <= col[c] /\ col[c] <= One

\* C5: for any nx and ny, 0 included, Image::compute followed by print_ppm
\* does not fail, calls the pixel function exactly once per (x, y) with
\* 0 <= x < nx and 0 <= y < ny, and prints exactly ny rows of exactly nx
\* pixels, every pixel three integers in [0,255] whenever the pixel's
\* channels were in [0,1].
C5_ImageShape ==
    /\ ipc # "panicked"
    /\ \A xy \in DOMAIN calls : Len(calls[xy]) <= 1
    /\ image # <<>> => \A xy \in DOMAIN calls : Len(calls[xy]) = 1
    /\ ipc = "done" =>
        /\ Len(printed) = ny
        /\ \A i \in 1..ny :
            /\ Len(printed[i]) = nx
            /\ \A j \in 1..nx :
                ChannelsInUnit(image[1][i][j]) => ChannelsInByte(printed[i][j])

\* the part of C5 the code keeps: the same, for images of at least one row
C5_ImageShapeWithRows ==
    /\ ny >= 1 => ipc # "panicked"
    /\ \A xy \in DOMAIN calls : Len(calls[xy]) <= 1
    /\ image # <<>> => \A xy \in DOMAIN calls : Len(calls[xy]) = 1
    /\ ipc = "done" =>
        /\ Len(printed) = ny
        /\ \A i \in 1..ny :
            /\ Len(printed[i]) = nx
            /\ \A j \in 1..nx :
                ChannelsInUnit(image[1][i][j]) => ChannelsInByte(printed[i][j])

\* a printed image with a pixel at full scale and a pixel above it
C5_WitnessWithRows ==
    /\ ipc = "done"
    /\ \E i \in 1..ny, j \in 1..nx : printed[i][j][1] = 255
    /\ \E i \in 1..ny, j \in 1..nx : printed[i][j][1] > 255

=============================================================================
